---- MODULE Spec2Model ----
(***************************************************************************)
(* A model of dlurls.py: the rate-limit header parsers, the wait-time      *)
(* policy of DownloadResult, Downloader.download_file and the batch loop   *)
(* Downloader.download_all; and of bulk-download.py: download_file under    *)
(* its backoff.on_exception decorator and the loop of main.                *)
(*                                                                         *)
(* Text (header names, header values, URL paths, file names) is a tuple of *)
(* one-character strings, so that matching, parsing and path splitting are *)
(* computed character by character as the Python code computes them.       *)
(***************************************************************************)
EXTENDS Integers, Sequences, FiniteSets, TLC

(***************************************************************************)
(* Bounds of the model.                                                    *)
(***************************************************************************)
\* longest URL list given to Downloader
MaxUrls == 2
\* largest max_tries given to Downloader
MaxTries == 3
\* largest attempt_number of a DownloadResult handed to wait_time_policy alone
MaxAttempt == 4
\* most headers of a header map handed to the parsers alone
MaxHeaders == 2
\* most lines of the URL file given to bulk-download.py
MaxLines == 2

(***************************************************************************)
(* Program constants.                                                      *)
(***************************************************************************)
MAX_WAIT_TIME == 3600
CONNECTION_ERROR == -1
\* the threshold above which wait_time_policy takes a reset value for an epoch
EPOCH_THRESHOLD == 1000000000
\* max_tries of the backoff.on_exception decorator of bulk-download.py
backoff_max_tries == 15

UNKNOWN == "UNKNOWN"
KNOWN == "KNOWN"

\* An optional value is a tuple: empty for Python's None, <<v>> for the value v
None == <<>>
Some(v) == <<v>>

\* The outcome of a call: it returned a value, or it raised an exception
Returned(v) == [raised |-> FALSE, value |-> v]
Raised == [raised |-> TRUE]

(***************************************************************************)
(* Text helpers (Python str methods used by the code).                     *)
(***************************************************************************)
UpperCase == <<"A","B","C","D","E","F","G","H","I","J","K","L","M",
               "N","O","P","Q","R","S","T","U","V","W","X","Y","Z">>
LowerCase == <<"a","b","c","d","e","f","g","h","i","j","k","l","m",
               "n","o","p","q","r","s","t","u","v","w","x","y","z">>
Digits == <<"0","1","2","3","4","5","6","7","8","9">>

LowerChar(c) ==
    IF \E k \in 1..26 : UpperCase[k] = c
    THEN LowerCase[CHOOSE k \in 1..26 : UpperCase[k] = c]
    ELSE c

Lower(s) == [k \in 1..Len(s) |-> LowerChar(s[k])]

IsDigit(c) == \E k \in 1..10 : Digits[k] = c

DigitVal(c) == (CHOOSE k \in 1..10 : Digits[k] = c) - 1

\* the whitespace of the texts of this model: the blank and the line end
Whitespace == {" ", "\n"}

\* str.strip(): leading and trailing whitespace removed
RECURSIVE LStripSpace(_)
LStripSpace(s) ==
    IF s # <<>> /\ Head(s) \in Whitespace THEN LStripSpace(Tail(s)) ELSE s

RECURSIVE RStripSpace(_)
RStripSpace(s) ==
    IF s # <<>> /\ s[Len(s)] \in Whitespace
    THEN RStripSpace(SubSeq(s, 1, Len(s) - 1)) ELSE s

Strip(s) == RStripSpace(LStripSpace(s))

\* str.lstrip("/")
RECURSIVE LStripSlash(_)
LStripSlash(s) ==
    IF s # <<>> /\ Head(s) = "/" THEN LStripSlash(Tail(s)) ELSE s

StartsWith(s, p) == Len(p) <= Len(s) /\ SubSeq(s, 1, Len(p)) = p

\* str.replace(old, ""): every non-overlapping occurrence of old, leftmost first,
\* is removed; replacing the empty string by the empty string changes nothing
RECURSIVE RemoveAll(_, _)
RemoveAll(s, old) ==
    IF old = <<>> \/ s = <<>> THEN s
    ELSE IF StartsWith(s, old)
         THEN RemoveAll(SubSeq(s, Len(old) + 1, Len(s)), old)
         ELSE <<Head(s)>> \o RemoveAll(Tail(s), old)

\* the value of a run of decimal digits
RECURSIVE DigitsValue(_)
DigitsValue(s) ==
    IF s = <<>> THEN 0
    ELSE 10 * DigitsValue(SubSeq(s, 1, Len(s) - 1)) + DigitVal(s[Len(s)])

AllDigits(s) == s # <<>> /\ \A k \in 1..Len(s) : IsDigit(s[k])

\* the digits of int(text): whitespace around the number is skipped and one
\* leading + or - is allowed (int also takes single underscores between digits
\* and non-ASCII digits; the texts of this model hold neither)
IntBody(s) ==
    LET t == Strip(s)
    IN  IF t # <<>> /\ Head(t) \in {"+", "-"} THEN Tail(t) ELSE t

\* whether int(text) returns (it raises ValueError otherwise)
IntParses(s) == AllDigits(IntBody(s))

\* int(text), for a text that parses
IntValue(s) ==
    LET t == Strip(s)
    IN  IF t # <<>> /\ Head(t) = "-" THEN 0 - DigitsValue(IntBody(s))
        ELSE DigitsValue(IntBody(s))

RECURSIVE Pow2(_)
Pow2(n) == IF n <= 0 THEN 1 ELSE 2 * Pow2(n - 1)

Min(a, b) == IF a <= b THEN a ELSE b

(***************************************************************************)
(* Path helpers (os.path) and the validators.                              *)
(***************************************************************************)
\* the largest index of character c in s, 0 when there is none
LastIndexOf(s, c) ==
    IF \E k \in 1..Len(s) : s[k] = c
    THEN CHOOSE k \in 1..Len(s) : s[k] = c /\ \A j \in (k + 1)..Len(s) : s[j] # c
    ELSE 0

\* os.path.basename: what follows the last slash
basename(path) == SubSeq(path, LastIndexOf(path, "/") + 1, Len(path))

\* os.path.splitext: the extension starts at the last dot, unless only dots
\* precede that dot in the name (leading dots belong to the root)
splitext(name) ==
    LET d == LastIndexOf(name, ".")
    IN  IF d > 0 /\ \E k \in 1..(d - 1) : name[k] # "."
        THEN <<SubSeq(name, 1, d - 1), SubSeq(name, d, Len(name))>>
        ELSE <<name, <<>>>>

\* os.path.join(a, b) of two components
join(a, b) ==
    IF b # <<>> /\ Head(b) = "/" THEN b
    ELSE IF a = <<>> \/ a[Len(a)] = "/" THEN a \o b
    ELSE a \o <<"/">> \o b

\* is_valid_url: the parsed URL when it has a scheme and a network location,
\* None otherwise.  A URL is given by what urlparse(url.strip()) yields.
is_valid_url(url) ==
    IF url.scheme # <<>> /\ url.netloc # <<>> THEN Some(url) ELSE None

\* is_valid_filename: the base name has a non-empty root and a non-empty extension
is_valid_filename(path) ==
    LET parts == splitext(basename(path))
    IN  parts[1] # <<>> /\ parts[2] # <<>>

(***************************************************************************)
(* Rate-limit header parsers.  A header map is a sequence of <<name,       *)
(* value>> pairs in the map's iteration order.                             *)
(***************************************************************************)
RateLimitPair(n, state) == [n |-> n, state |-> state]

T_x == <<"x", "-">>
T_rate == <<"r", "a", "t", "e">>
T_hyphen == <<"-">>
T_limit == <<"l", "i", "m", "i", "t">>
T_remaining == <<"r", "e", "m", "a", "i", "n", "i", "n", "g">>
T_reset == <<"r", "e", "s", "e", "t">>
T_retry == <<"r", "e", "t", "r", "y">>
T_after == <<"a", "f", "t", "e", "r">>
T_content_length == <<"c","o","n","t","e","n","t","-","l","e","n","g","t","h">>

\* the texts matched in full by (X-|)Rate-?Limit-<word>, letters in lower case
RateLimitRegex(word) ==
    { pre \o T_rate \o hy \o T_limit \o T_hyphen \o word :
        pre \in {T_x, <<>>}, hy \in {T_hyphen, <<>>} }

\* the texts matched in full by Retry-?After, letters in lower case
RetryAfterRegex == { T_retry \o hy \o T_after : hy \in {T_hyphen, <<>>} }

\* regex.fullmatch(key) under re.IGNORECASE
fullmatch(regex, key) == Lower(key) \in regex

\* find_key_matching: the index of the first key the regex matches, 0 for None
find_key_matching(headers, regex) ==
    IF \E k \in 1..Len(headers) : fullmatch(regex, headers[k][1])
    THEN CHOOSE k \in 1..Len(headers) :
            /\ fullmatch(regex, headers[k][1])
            /\ \A j \in 1..(k - 1) : ~fullmatch(regex, headers[j][1])
    ELSE 0

\* the common body of the four parsers: int(headers[key]) of the matching key,
\* which raises ValueError on a text that is no integer
parse_header(headers, regex) ==
    LET key == find_key_matching(headers, regex)
    IN  IF key # 0 /\ headers[key][1] # <<>>
        THEN IF IntParses(headers[key][2])
             THEN Returned(RateLimitPair(IntValue(headers[key][2]), KNOWN))
             ELSE Raised
        ELSE Returned(RateLimitPair(0, UNKNOWN))

get_quota_remaining(headers) == parse_header(headers, RateLimitRegex(T_remaining))

get_rate_limit(headers) == parse_header(headers, RateLimitRegex(T_limit))

get_retry_after(headers) == parse_header(headers, RetryAfterRegex)

get_ratelimit_reset(headers) == parse_header(headers, RateLimitRegex(T_reset))

RateLimits(remaining, rate_limit, retry_after, reset_after) ==
    [remaining |-> remaining, rate_limit |-> rate_limit,
     retry_after |-> retry_after, reset_after |-> reset_after]

\* get_rate_limits: the four parsers in turn; a parser that raises ends the call
get_rate_limits(headers) ==
    LET quota_remaining == get_quota_remaining(headers)
        rate_limit == get_rate_limit(headers)
        retry_after == get_retry_after(headers)
        reset_after == get_ratelimit_reset(headers)
    IN  IF \/ quota_remaining.raised \/ rate_limit.raised
           \/ retry_after.raised \/ reset_after.raised
        THEN Raised
        ELSE Returned(RateLimits(quota_remaining.value, rate_limit.value,
                                 retry_after.value, reset_after.value))

blank_rate_limits ==
    RateLimits(RateLimitPair(0, UNKNOWN), RateLimitPair(0, UNKNOWN),
               RateLimitPair(0, UNKNOWN), RateLimitPair(0, UNKNOWN))

(***************************************************************************)
(* DownloadResult and its wait-time policy.                                *)
(***************************************************************************)
DownloadResult(url, success, status_code, rate_limits, skip, attempt_number) ==
    [url |-> url, success |-> success, status_code |-> status_code,
     rate_limits |-> rate_limits, skip |-> skip, attempt_number |-> attempt_number]

\* a wait time of num/den seconds
Wait(num, den) == [num |-> num, den |-> den]

\* the quota rule's window: an epoch reset subtracts time.time, the function
\* object itself (it is never called), from an int, which raises TypeError
quota_duration(reset_n) ==
    IF reset_n > EPOCH_THRESHOLD THEN Raised ELSE Returned(reset_n)

\* the Retry-After value taken as it comes, without the cap
retry_after_rule_uncapped(self) == Wait(self.rate_limits.retry_after.n, 1)

\* line 167: the Retry-After value, capped
retry_after_rule(self) ==
    Wait(Min(self.rate_limits.retry_after.n, MAX_WAIT_TIME), 1)

\* a backoff of 2 * attempt_number in place of 2 ** attempt_number
backoff_rule_linear(self) == Wait(2 * self.attempt_number, 1)

\* line 190: exponential backoff on 429, 503 and connection errors
backoff_rule(self) == Wait(Pow2(self.attempt_number), 1)

\* line 194: the backoff of every other outcome with an attempt number above 0
default_rule(self) == Wait(Pow2(self.attempt_number), 1)

wait_time_policy(self) ==
    IF self.skip THEN Returned(Wait(0, 1))
    ELSE IF /\ self.rate_limits.retry_after.n > 0
            /\ self.rate_limits.retry_after.state = KNOWN
    THEN Returned(retry_after_rule(self))
    ELSE IF /\ self.rate_limits.remaining.n > 0
            /\ self.rate_limits.remaining.state = KNOWN
            /\ self.rate_limits.reset_after.n > 0
            /\ self.rate_limits.reset_after.state = KNOWN
    THEN LET duration == quota_duration(self.rate_limits.reset_after.n)
         IN  IF duration.raised THEN Raised
             ELSE Returned(Wait(duration.value, self.rate_limits.remaining.n))
    ELSE IF self.status_code \in {429, 503, CONNECTION_ERROR}
    THEN Returned(backoff_rule(self))
    ELSE IF self.attempt_number > 0
    THEN Returned(default_rule(self))
    ELSE Returned(Wait(0, 1))

\* sleep(seconds): int(seconds * 10) ticks of time.sleep(0.01), left early once
\* the time slept reaches seconds.  The result is the time actually slept, in
\* hundredths of a second; time is counted in hundredths throughout.
RECURSIVE sleep_loop(_, _, _)
sleep_loop(ticks_left, time_slept, seconds) ==
    IF ticks_left = 0 THEN time_slept
    ELSE IF (time_slept + 1) * seconds.den >= 100 * seconds.num THEN time_slept + 1
    ELSE sleep_loop(ticks_left - 1, time_slept + 1, seconds)

sleep(seconds) ==
    IF seconds.num = 0 THEN 0
    ELSE LET seconds_times_ten == (seconds.num * 10) \div seconds.den
         IN  sleep_loop(seconds_times_ten, 0, seconds)

(***************************************************************************)
(* The inputs of a run: URLs, response headers, and what the network and   *)
(* the disk do on one attempt.                                             *)
(***************************************************************************)
T_https == <<"h", "t", "t", "p", "s">>
T_host == <<"h">>

Url(scheme, netloc, path) == [scheme |-> scheme, netloc |-> netloc, path |-> path]

\* a blank line of the URL file: no scheme, no network location
UrlBlank == Url(<<>>, <<>>, <<>>)
\* https://h/d/ : a valid URL whose path names no file
UrlDir == Url(T_https, T_host, <<"/", "d", "/">>)
\* https://h/a.t
UrlA == Url(T_https, T_host, <<"/", "a", ".", "t">>)
\* https://h/d/b.t
UrlB == Url(T_https, T_host, <<"/", "d", "/", "b", ".", "t">>)

UrlSet == {UrlBlank, UrlDir, UrlA, UrlB}

\* the URL lists of at most MaxUrls entries
UrlLists == UNION { [1..n -> UrlSet] : n \in 0..MaxUrls }

\* --prefixes-to-remove /d/
PrefixLists == { << <<"/", "d", "/">> >> }

download_dir == <<"t">>

H_retry_after == <<"R","e","t","r","y","-","A","f","t","e","r">>
H_remaining == <<"X","-","R","a","t","e","L","i","m","i","t","-",
                 "R","e","m","a","i","n","i","n","g">>
H_reset == <<"X","-","R","a","t","e","L","i","m","i","t","-","R","e","s","e","t">>
H_content_length == <<"C","o","n","t","e","n","t","-","L","e","n","g","t","h">>

NoHeaders == <<>>
\* Retry-After: 7
HdrRetry7 == << <<H_retry_after, <<"7">>>> >>
\* Retry-After: Wed (the start of an HTTP date)
HdrRetryDate == << <<H_retry_after, <<"W", "e", "d">>>> >>
\* X-RateLimit-Remaining: 2, X-RateLimit-Reset: 9 (relative seconds)
HdrQuota == << <<H_remaining, <<"2">>>>, <<H_reset, <<"9">>>> >>
\* X-RateLimit-Remaining: 2, X-RateLimit-Reset: 2000000000 (an epoch)
HdrQuotaEpoch ==
    << <<H_remaining, <<"2">>>>,
       <<H_reset, <<"2","0","0","0","0","0","0","0","0","0">>>> >>
\* Content-Length: 5
HdrLength == << <<H_content_length, <<"5">>>> >>
\* Content-Length: x
HdrLengthBad == << <<H_content_length, <<"x">>>> >>

\* the header maps of a 503 response, and those of a 200 response
ErrorHeaderMaps == {NoHeaders, HdrRetryDate, HdrQuotaEpoch}

HeaderMaps == {NoHeaders, HdrRetry7, HdrQuota, HdrLength, HdrLengthBad}

Bodies == {"hello"}

\* file contents other than a complete body
OLD == "old content"
PARTIAL == "partial content"

Env(transport, status_code, headers, makedirs, write, body) ==
    [transport |-> transport, status_code |-> status_code, headers |-> headers,
     makedirs |-> makedirs, write |-> write, body |-> body]

\* What one attempt meets.  transport: a response, a ConnectionError or Timeout,
\* or any other exception of requests.get.  makedirs: whether os.makedirs
\* returns.  write: the body is written completely, open() fails, or a write
\* fails after the file was created.
\* What the trace keeps of the attempt's input: the transport's outcome, the
\* status code, the write's outcome and the body.
Met(env) ==
    [transport |-> env.transport, status_code |-> env.status_code,
     write |-> env.write, body |-> env.body]

\* the entry of the trace for an attempt that made no request
NoRequest ==
    [transport |-> "no request", status_code |-> 0, write |-> "complete",
     body |-> "hello"]

Envs ==
    { Env(t, 0, NoHeaders, TRUE, "complete", "hello") :
        t \in {"connection_error", "other_exception"} }
    \cup { Env("response", 503, h, TRUE, "complete", "hello") : h \in ErrorHeaderMaps }
    \cup { Env("response", 204, NoHeaders, TRUE, "complete", "hello") }
    \cup { Env("response", 200, h, TRUE, "complete", b) :
        h \in HeaderMaps, b \in Bodies }
    \cup { Env("response", 200, NoHeaders, TRUE, w, "hello") :
        w \in {"open_fails", "fails_midway"} }
    \cup { Env("response", 200, NoHeaders, FALSE, "complete", "hello") }

(***************************************************************************)
(* The state of a Downloader and of a run of download_all.                 *)
(***************************************************************************)
VARIABLES
    urls,                 \* self.urls
    prefixes_to_remove,   \* self.prefixes_to_remove
    max_tries,            \* self.max_tries
    number_of_successful_downloads,
    number_of_failed_downloads,
    number_of_existing_files,
    fs,                   \* the files under download_dir: path -> content
    fs0,                  \* the files as they were when the run started
    pc,                   \* where download_all is
    i,                    \* the index of the current URL (enumerate, from 1)
    attempt_number,       \* the inner loop's variable (range(max_tries), from 0)
    result,               \* download_all's local variable result
    requests_made,        \* how many times requests.get was called
    trace,                \* the completed attempts of the current URL, in order:
                          \* what each met, returned, asked to sleep and slept
    tries,                \* per URL index, how many attempts were made
    abandoned,            \* the URL indexes of the 'Failed to download' records
    exception,            \* the exception that left download_all, if one did
    policy_in,            \* a DownloadResult handed to wait_time_policy alone
    policy_out,           \* what that call did
    headers_in,           \* a header map handed to the parsers alone
    headers_out,          \* what get_rate_limits did with it
    bulk_urls,            \* bulk-download.py: the lines of the URL file
    bulk_fs,              \* the files under base_dir: path -> content
    bulk_pc,              \* where main is
    bulk_n,               \* the number of the current line (enumerate, from 1)
    bulk_tries,           \* the decorator's count of tries of the current call
    bulk_requests,        \* how many times requests.get was called for the line
    bulk_sleeps,          \* how many times time.sleep(sleep) was called
    bulk_wait             \* the last value of backoff.expo the decorator waited on

vars ==
    <<urls, prefixes_to_remove, max_tries, number_of_successful_downloads,
      number_of_failed_downloads, number_of_existing_files, fs, fs0, pc, i,
      attempt_number, result, requests_made, trace, tries, abandoned, exception,
      policy_in, policy_out, headers_in, headers_out,
      bulk_urls, bulk_fs, bulk_pc, bulk_n, bulk_tries, bulk_requests, bulk_sleeps,
      bulk_wait>>

config_vars == <<urls, prefixes_to_remove, max_tries, fs0>>
pure_vars == <<policy_in, policy_out, headers_in, headers_out>>
bulk_vars ==
    <<bulk_urls, bulk_fs, bulk_pc, bulk_n, bulk_tries, bulk_requests, bulk_sleeps,
      bulk_wait>>

\* bulk-download.py is not running
NoBulk ==
    /\ bulk_urls = <<>>
    /\ bulk_fs = <<>>
    /\ bulk_pc = "done"
    /\ bulk_n = 0
    /\ bulk_tries = 0
    /\ bulk_requests = 0
    /\ bulk_sleeps = 0
    /\ bulk_wait = 0

\* os.path.exists
exists(path) == path \in DOMAIN fs

\* the file system after open(path, "wb") and the writes that followed
written(path, content) ==
    [q \in DOMAIN fs \cup {path} |-> IF q = path THEN content ELSE fs[q]]

\* lines 306-307: each configured prefix is removed from the path, in order
RECURSIVE remove_prefixes(_, _)
remove_prefixes(path, prefixes) ==
    IF prefixes = <<>> THEN path
    ELSE remove_prefixes(RemoveAll(path, LStripSlash(Head(prefixes))), Tail(prefixes))

\* lines 304-308: the local path of a valid URL
local_path_of(parsed, prefixes) ==
    join(download_dir, LStripSlash(remove_prefixes(LStripSlash(parsed.path), prefixes)))

\* r.headers.get("Content-Length"): the lookup ignores case; None as <<>>
content_length_of(headers) ==
    LET k == find_key_matching(headers, {T_content_length})
    IN  IF k = 0 THEN <<>> ELSE headers[k][2]

\* What a call of download_file leaves: whether it raised, what it returned
\* (None or a DownloadResult), and the Downloader's counters and the files.
Outcome(raised, value, files, succ, failed, existing, reqs) ==
    [raised |-> raised, value |-> value, fs |-> files,
     number_of_successful_downloads |-> succ,
     number_of_failed_downloads |-> failed,
     number_of_existing_files |-> existing,
     requests_made |-> reqs]

\* What a call of download_file leaves when an exception ends it after the
\* request was made: no value, and the counters and the files as they were
Raises(name) ==
    [raised |-> TRUE, exception |-> name, value |-> None, fs |-> fs,
     number_of_successful_downloads |-> number_of_successful_downloads,
     number_of_failed_downloads |-> number_of_failed_downloads,
     number_of_existing_files |-> number_of_existing_files,
     requests_made |-> requests_made + 1]

\* the check for an existing file left out
destination_never_taken(local_path) == FALSE

\* a file at the destination counted only when it is not a partial one
destination_complete(local_path) == exists(local_path) /\ fs[local_path] # PARTIAL

\* line 317: a file at the destination ends the attempt before any request
destination_taken(local_path) == exists(local_path)

\* the outcome for an illegal file name without its skip flag
invalid_filename_result_no_skip(url, attempt) ==
    DownloadResult(url, FALSE, 0, blank_rate_limits, FALSE, attempt)

\* lines 314-316: the outcome for a destination that is no legal file name
invalid_filename_result(url, attempt) ==
    DownloadResult(url, FALSE, 0, blank_rate_limits, TRUE, attempt)

\* the outcome for an existing destination without its skip flag
existing_file_result_no_skip(url, attempt) ==
    DownloadResult(url, TRUE, 200, blank_rate_limits, FALSE, attempt)

\* lines 320-322: the outcome for a destination that already exists
existing_file_result(url, attempt) ==
    DownloadResult(url, TRUE, 200, blank_rate_limits, TRUE, attempt)

\* lines 330-332: the outcome of a ConnectionError or Timeout
connection_error_result(url, attempt) ==
    DownloadResult(url, FALSE, CONNECTION_ERROR, blank_rate_limits, FALSE, attempt)

\* lines 348-362: the response body is written to the destination
write_body(local_path, env) ==
    IF env.write = "complete" THEN written(local_path, env.body)
    ELSE IF env.write = "fails_midway" THEN written(local_path, PARTIAL)
    ELSE fs

download_file(url, attempt, env) ==
    LET parsed == is_valid_url(url)
        succ == number_of_successful_downloads
        failed == number_of_failed_downloads
        existing == number_of_existing_files
    IN
    IF parsed = None
    THEN Outcome(FALSE, None, fs, succ, failed, existing, requests_made)
    ELSE
    LET local_path == local_path_of(parsed[1], prefixes_to_remove) IN
    IF ~is_valid_filename(local_path)
    THEN Outcome(FALSE, Some(invalid_filename_result(url, attempt)),
                 fs, succ, failed, existing, requests_made)
    ELSE IF destination_taken(local_path)
    THEN Outcome(FALSE, Some(existing_file_result(url, attempt)),
                 fs, succ, failed, existing + 1, requests_made)
    ELSE IF env.transport = "connection_error"
    THEN Outcome(FALSE, Some(connection_error_result(url, attempt)),
                 fs, succ, failed + 1, existing, requests_made + 1)
    ELSE IF env.transport = "other_exception"
    THEN Raises("RequestException")
    ELSE
    LET status_code == env.status_code
        rate_limits == get_rate_limits(env.headers)
        success == status_code >= 200 /\ status_code < 300
        content_length == content_length_of(env.headers)
    IN
    IF rate_limits.raised
    THEN Raises("ValueError")
    ELSE IF content_length # <<>> /\ ~IntParses(content_length)
    THEN Raises("ValueError")
    ELSE
    LET download_result ==
            DownloadResult(url, success, status_code, rate_limits.value, FALSE, attempt)
    IN
    IF success
    THEN IF ~env.makedirs
         THEN Raises("OSError")
         ELSE IF env.write = "complete"
         THEN Outcome(FALSE, Some(download_result), write_body(local_path, env),
                      succ + 1, failed, existing, requests_made + 1)
         ELSE Outcome(FALSE, Some(download_result), write_body(local_path, env),
                      succ, failed + 1, existing, requests_made + 1)
    ELSE Outcome(FALSE, Some(download_result), fs, succ, failed + 1, existing,
                 requests_made + 1)

(***************************************************************************)
(* Downloader.download_all, one action per step of its two loops.          *)
(***************************************************************************)
BlankResult == DownloadResult(UrlBlank, FALSE, 0, blank_rate_limits, FALSE, 0)

\* the destinations of the URLs of a list that have one
Destinations(list, prefixes) ==
    { local_path_of(list[k], prefixes) :
        k \in { j \in 1..Len(list) :
                  /\ is_valid_url(list[j]) # None
                  /\ is_valid_filename(local_path_of(list[j], prefixes)) } }

\* Downloader.__init__, with any of the destinations already on disk
Init ==
    /\ urls \in UrlLists
    /\ prefixes_to_remove \in PrefixLists
    /\ max_tries \in 1..MaxTries
    /\ number_of_successful_downloads = 0
    /\ number_of_failed_downloads = 0
    /\ number_of_existing_files = 0
    /\ fs \in { [q \in S |-> OLD] : S \in SUBSET Destinations(urls, prefixes_to_remove) }
    /\ fs0 = fs
    /\ pc = "start"
    /\ i = 0
    /\ attempt_number = 0
    /\ result = None
    /\ requests_made = 0
    /\ trace = <<>>
    /\ tries = [k \in 1..Len(urls) |-> 0]
    /\ abandoned = {}
    /\ exception = None
    /\ policy_in = BlankResult
    /\ policy_out = None
    /\ headers_in = NoHeaders
    /\ headers_out = None
    /\ NoBulk

\* lines 370-375: the outer loop takes the next URL, if there is one, and
\* enters the inner loop; download_all returns otherwise
NextUrl ==
    IF i < Len(urls)
    THEN /\ i' = i + 1
         /\ result' = None
         /\ attempt_number' = 0
         /\ trace' = <<>>
         /\ pc' = "attempt"
    ELSE /\ pc' = "done"
         /\ UNCHANGED <<i, result, attempt_number, trace>>

\* lines 368-375: download_all is called
Start ==
    /\ pc = "start"
    /\ NextUrl
    /\ UNCHANGED <<number_of_successful_downloads, number_of_failed_downloads,
                   number_of_existing_files, fs, requests_made, tries, abandoned,
                   exception>>
    /\ UNCHANGED <<config_vars, pure_vars, bulk_vars>>

\* the inner loop left on skip only
leaves_loop_on_skip_only(r) == r.skip

\* the inner loop never left before max_tries attempts
leaves_loop_never(r) == FALSE

\* line 385: the inner loop is left on success or skip
leaves_loop(r) == r.success \/ r.skip

\* lines 376-386: one pass of the inner loop.  An exception raised by
\* download_file, the None it returns for an invalid URL (line 382 reads
\* result.wait_time_policy) and an exception of wait_time_policy all end
\* download_all.
Attempt ==
    /\ pc = "attempt"
    /\ \E env \in Envs :
        \E out \in {download_file(urls[i], attempt_number + 1, env)} :
        /\ number_of_successful_downloads' = out.number_of_successful_downloads
        /\ number_of_failed_downloads' = out.number_of_failed_downloads
        /\ number_of_existing_files' = out.number_of_existing_files
        /\ fs' = out.fs
        /\ requests_made' = out.requests_made
        /\ tries' = [tries EXCEPT ![i] = @ + 1]
        /\ IF out.raised
           THEN /\ pc' = "crashed"
                /\ exception' = Some(out.exception)
                /\ UNCHANGED <<result, trace, attempt_number>>
           ELSE /\ result' = out.value
                /\ IF out.value = None
                   THEN /\ pc' = "crashed"
                        /\ exception' = Some("AttributeError")
                        /\ UNCHANGED <<trace, attempt_number>>
                   ELSE LET r == out.value[1]
                            sleep_time == wait_time_policy(r)
                        IN  IF sleep_time.raised
                            THEN /\ pc' = "crashed"
                                 /\ exception' = Some("TypeError")
                                 /\ UNCHANGED <<trace, attempt_number>>
                            ELSE /\ exception' = exception
                                 /\ trace' = Append(trace,
                                        [env |-> IF out.requests_made = requests_made
                                                 THEN NoRequest ELSE Met(env),
                                         result |-> r,
                                         sleep_time |-> sleep_time.value,
                                         slept |-> IF sleep_time.value.num > 0
                                                   THEN sleep(sleep_time.value)
                                                   ELSE 0])
                                 /\ IF leaves_loop(r)
                                    THEN /\ pc' = "after_tries"
                                         /\ UNCHANGED attempt_number
                                    ELSE IF attempt_number + 1 < max_tries
                                    THEN /\ pc' = "attempt"
                                         /\ attempt_number' = attempt_number + 1
                                    ELSE /\ pc' = "after_tries"
                                         /\ UNCHANGED attempt_number
    /\ UNCHANGED <<i, abandoned>>
    /\ UNCHANGED <<config_vars, pure_vars, bulk_vars>>

\* line 387: not (result or result.success) and not result.skip, where a
\* DownloadResult object is truthy
gives_up(r) == ~(TRUE \/ r.success) /\ ~r.skip

\* lines 387-390, then 370-375: after the inner loop, the 'Failed to download'
\* record; then the outer loop goes on
AfterTries ==
    /\ pc = "after_tries"
    /\ abandoned' = IF gives_up(result[1]) THEN abandoned \cup {i} ELSE abandoned
    /\ NextUrl
    /\ UNCHANGED <<number_of_successful_downloads, number_of_failed_downloads,
                   number_of_existing_files, fs, requests_made, tries, exception>>
    /\ UNCHANGED <<config_vars, pure_vars, bulk_vars>>

Next == Start \/ Attempt \/ AfterTries

Spec == Init /\ [][Next]_vars

(***************************************************************************)
(* wait_time_policy and get_rate_limits called on their own, over every    *)
(* input of a bounded set.                                                 *)
(***************************************************************************)
\* a Downloader that has no URL and has finished
NoRun ==
    /\ urls = <<>>
    /\ prefixes_to_remove = <<>>
    /\ max_tries = 1
    /\ number_of_successful_downloads = 0
    /\ number_of_failed_downloads = 0
    /\ number_of_existing_files = 0
    /\ fs = <<>>
    /\ fs0 = <<>>
    /\ pc = "done"
    /\ i = 0
    /\ attempt_number = 0
    /\ result = None
    /\ requests_made = 0
    /\ trace = <<>>
    /\ tries = <<>>
    /\ abandoned = {}
    /\ exception = None

run_vars ==
    <<urls, prefixes_to_remove, max_tries, number_of_successful_downloads,
      number_of_failed_downloads, number_of_existing_files, fs, fs0, pc, i,
      attempt_number, result, requests_made, trace, tries, abandoned, exception>>

RetryAfterPairs ==
    { RateLimitPair(0, UNKNOWN), RateLimitPair(5, UNKNOWN) }
    \cup { RateLimitPair(n, KNOWN) : n \in {0, 1, 3600, 3601, 7200} }

RemainingPairs ==
    { RateLimitPair(0, UNKNOWN), RateLimitPair(2, UNKNOWN) }
    \cup { RateLimitPair(n, KNOWN) : n \in {0, 1, 2, 4} }

ResetPairs ==
    { RateLimitPair(0, UNKNOWN), RateLimitPair(9, UNKNOWN) }
    \cup { RateLimitPair(n, KNOWN) :
             n \in {0, 9, EPOCH_THRESHOLD, EPOCH_THRESHOLD + 1, 2 * EPOCH_THRESHOLD} }

PolicyStatusCodes == {0, 200, 404, 429, 503, CONNECTION_ERROR}

PolicyInputs ==
    { DownloadResult(UrlA, status_code = 200, status_code,
                     RateLimits(remaining, RateLimitPair(0, UNKNOWN), retry_after,
                                reset_after),
                     skip, n) :
        status_code \in PolicyStatusCodes, remaining \in RemainingPairs,
        retry_after \in RetryAfterPairs, reset_after \in ResetPairs,
        skip \in BOOLEAN, n \in 0..MaxAttempt }

InitPolicy ==
    /\ NoRun
    /\ policy_in \in PolicyInputs
    /\ policy_out = None
    /\ headers_in = NoHeaders
    /\ headers_out = None
    /\ NoBulk

\* result.wait_time_policy()
PolicyCall ==
    /\ policy_out = None
    /\ policy_out' = Some(wait_time_policy(policy_in))
    /\ UNCHANGED <<run_vars, policy_in, headers_in, headers_out, bulk_vars>>

SpecPolicy == InitPolicy /\ [][PolicyCall]_vars

H_rate_limit_remaining ==
    <<"X","-","R","a","t","e","-","L","i","m","i","t","-",
      "R","e","m","a","i","n","i","n","g">>
H_ratelimit_remaining_plain ==
    <<"R","a","t","e","L","i","m","i","t","-","R","e","m","a","i","n","i","n","g">>
H_ratelimitremaining ==
    <<"r","a","t","e","l","i","m","i","t","r","e","m","a","i","n","i","n","g">>
H_rate_limit_limit ==
    <<"x","-","r","a","t","e","-","l","i","m","i","t","-","l","i","m","i","t">>
H_retry_after_upper == <<"R","E","T","R","Y","-","A","F","T","E","R">>
H_retryafter == <<"r","e","t","r","y","a","f","t","e","r">>
H_server == <<"S","e","r","v","e","r">>

HeaderNames ==
    {H_rate_limit_remaining, H_ratelimit_remaining_plain, H_ratelimitremaining,
     H_rate_limit_limit, H_reset, H_retry_after, H_retry_after_upper, H_retryafter,
     H_server}

HeaderValues ==
    { <<"5">>, <<"0">>, <<"1", "2">>, <<" ", "7", " ">>, <<"-", "3">>,
      <<"W", "e", "d">>, <<"1", ".", "5">>, <<>> }

\* header maps of at most MaxHeaders entries whose names differ beyond case
HeaderInputs ==
    { h \in UNION { [1..n -> HeaderNames \X HeaderValues] : n \in 0..MaxHeaders } :
        \A j, k \in 1..Len(h) : j # k => Lower(h[j][1]) # Lower(h[k][1]) }

InitHeaders ==
    /\ NoRun
    /\ policy_in = BlankResult
    /\ policy_out = None
    /\ headers_in \in HeaderInputs
    /\ headers_out = None
    /\ NoBulk

\* get_rate_limits(headers)
ParseHeaders ==
    /\ headers_out = None
    /\ headers_out' = Some(get_rate_limits(headers_in))
    /\ UNCHANGED <<run_vars, policy_in, policy_out, headers_in, bulk_vars>>

SpecHeaders == InitHeaders /\ [][ParseHeaders]_vars

(***************************************************************************)
(* bulk-download.py: download_file under backoff.on_exception(backoff.expo, *)
(* Exception, max_tries=15), and the loop of main over the URL file.       *)
(***************************************************************************)
\* the prefix that download_file removes from the URL
T_bulk_prefix ==
    <<"h","t","t","p","s",":","/","/","a","p","i",".","e","p","a",".","g","o","v",
      "/","e","a","s","e","y","/","b","u","l","k","-","f","i","l","e","s","/">>
T_epa == <<"a","p","i",".","e","p","a",".","g","o","v">>

\* a line of the URL file as readlines yields it, with the network location
\* that urlparse finds in the stripped line
Line(text, netloc) == [text |-> text, netloc |-> netloc]

\* an empty line
LineBlank == Line(<<"\n">>, <<>>)
\* # c
LineComment == Line(<<"#", " ", "c", "\n">>, <<>>)
\* a.t : no network location
LineNoNetloc == Line(<<"a", ".", "t", "\n">>, <<>>)
\* https://api.epa.gov/easey/bulk-files/x
LineX == Line(T_bulk_prefix \o <<"x", "\n">>, T_epa)
\* https://api.epa.gov/easey/bulk-files/d/y, with a blank before it
LineY == Line(<<" ">> \o T_bulk_prefix \o <<"d", "/", "y", "\n">>, T_epa)

LineSet == {LineBlank, LineComment, LineNoNetloc, LineX, LineY}

\* the URL files of at most MaxLines lines
LineLists == UNION { [1..n -> LineSet] : n \in 0..MaxLines }

\* --base-dir b
base_dir == <<"b">>

\* lines 33-34: the file that download_file writes for a URL
file_path_of(url) == join(base_dir, RemoveAll(url, T_bulk_prefix))

\* lines 70-78 of main: the line is stripped and passed over when it is empty,
\* a comment or has no network location
is_skipped(line) ==
    LET url == Strip(line.text)
    IN  url = <<>> \/ StartsWith(url, <<"#">>) \/ line.netloc = <<>>

\* What one try of download_file meets: os.makedirs raises; requests.get
\* raises; the response is not 200; open() succeeds and file.write raises; or
\* the response is 200 and the content is written.
BulkEnvs == {"makedirs_raises", "get_raises", "not_200", "write_fails", "ok"}

\* the files of the lines of a URL file that main does not pass over
BulkDestinations(lines) ==
    { file_path_of(Strip(lines[k].text)) :
        k \in { j \in 1..Len(lines) : ~is_skipped(lines[j]) } }

\* main is called: the URL file is read, with any of the files already there
InitBulk ==
    /\ NoRun
    /\ policy_in = BlankResult
    /\ policy_out = None
    /\ headers_in = NoHeaders
    /\ headers_out = None
    /\ bulk_urls \in LineLists
    /\ bulk_fs \in { [q \in S |-> OLD] : S \in SUBSET BulkDestinations(bulk_urls) }
    /\ bulk_pc = "loop"
    /\ bulk_n = 0
    /\ bulk_tries = 0
    /\ bulk_requests = 0
    /\ bulk_sleeps = 0
    /\ bulk_wait = 0

\* lines 67-80: the loop of main takes the next line; it goes on to the line
\* after it when the line is passed over, and calls download_file otherwise
NextLine ==
    /\ bulk_pc = "loop"
    /\ IF bulk_n < Len(bulk_urls)
       THEN /\ bulk_n' = bulk_n + 1
            /\ bulk_pc' = IF is_skipped(bulk_urls[bulk_n + 1]) THEN "loop" ELSE "call"
       ELSE /\ bulk_pc' = "done"
            /\ UNCHANGED bulk_n
    /\ bulk_tries' = 0
    /\ bulk_requests' = 0
    /\ UNCHANGED <<bulk_urls, bulk_fs, bulk_sleeps, bulk_wait>>
    /\ UNCHANGED <<run_vars, pure_vars>>

\* the try limit of the decorator with a limit of one try
gives_up_after_first_try(tries_made) == tries_made = 1

\* backoff.on_exception: the exception of the try that brings the count of
\* tries to max_tries is raised again
max_tries_exceeded(tries_made) == tries_made = backoff_max_tries

\* backoff.expo: 1, 2, 4, ... is the wait's ceiling after try 1, 2, 3, ...; the
\* decorator's full jitter draws the pause from between 0 and the ceiling
expo(tries_made) == Pow2(tries_made - 1)

\* One try of download_file (lines 31-55) by the decorator (line 29), with what
\* the decorator does on its exception: raise it again at the try limit, wait
\* and try again otherwise.
Try ==
    /\ bulk_pc = "call"
    /\ bulk_tries' = bulk_tries + 1
    /\ \E env \in BulkEnvs :
        LET url == Strip(bulk_urls[bulk_n].text)
            file_path == file_path_of(url)
            fails == /\ bulk_pc' = IF max_tries_exceeded(bulk_tries + 1)
                                   THEN "raised" ELSE "call"
                     /\ bulk_wait' = IF max_tries_exceeded(bulk_tries + 1)
                                     THEN bulk_wait ELSE expo(bulk_tries + 1)
                     /\ UNCHANGED bulk_sleeps
            requested == bulk_requests' = bulk_requests + 1
        IN
        IF env = "makedirs_raises"
        THEN fails /\ UNCHANGED <<bulk_fs, bulk_requests>>
        ELSE IF file_path \in DOMAIN bulk_fs
        THEN /\ bulk_pc' = "loop"
             /\ UNCHANGED <<bulk_fs, bulk_requests, bulk_sleeps, bulk_wait>>
        ELSE IF env = "get_raises" \/ env = "not_200"
        THEN fails /\ requested /\ UNCHANGED bulk_fs
        ELSE IF env = "write_fails"
        THEN /\ fails /\ requested
             /\ bulk_fs' = [q \in DOMAIN bulk_fs \cup {file_path} |->
                              IF q = file_path THEN PARTIAL ELSE bulk_fs[q]]
        ELSE /\ requested
             /\ bulk_fs' = [q \in DOMAIN bulk_fs \cup {file_path} |->
                              IF q = file_path THEN "hello" ELSE bulk_fs[q]]
             /\ bulk_sleeps' = bulk_sleeps + 1
             /\ bulk_pc' = "loop"
             /\ UNCHANGED bulk_wait
    /\ UNCHANGED <<bulk_urls, bulk_n>>
    /\ UNCHANGED <<run_vars, pure_vars>>

NextBulk == NextLine \/ Try

SpecBulk == InitBulk /\ [][NextBulk]_vars

(***************************************************************************)
(* The claims.                                                             *)
(***************************************************************************)
\* the URL at index k is valid and its destination is a legal file name
Resolves(k) ==
    /\ is_valid_url(urls[k]) # None
    /\ is_valid_filename(local_path_of(urls[k], prefixes_to_remove))

\* the destination of the URL at index k
DestinationOf(k) == local_path_of(urls[k], prefixes_to_remove)

\* download_all has ended, by returning or by an exception
Ended == pc \in {"done", "crashed"}

\* C1: download_all reaches the end of the URL list whatever the URLs and the
\* outcomes of the attempts are: no exception escapes the batch loop.
C1_NoExceptionEscapes == pc # "crashed"

\* C2: for a URL without scheme or network location, download_file returns a
\* DownloadResult (never None) from which download_all reads the wait time,
\* success and skip, and the URL is given up without a request.
C2_InvalidUrlOutcome ==
    (i >= 1 /\ tries[i] >= 1 /\ is_valid_url(urls[i]) = None)
        => (result # None /\ pc # "crashed")

\* C3: every URL gets at least 1 and at most max_tries attempts, numbered
\* 1, 2, ...; they stop right after the first outcome with success or skip and
\* otherwise go on until attempt max_tries was made.
C3_AttemptsPerUrl ==
    /\ \A j \in 1..Len(trace) :
         /\ trace[j].result.attempt_number = j
         /\ j < Len(trace) => ~(trace[j].result.success \/ trace[j].result.skip)
    /\ \A k \in 1..Len(urls) : tries[k] <= max_tries
    /\ Ended =>
         \A k \in 1..Len(urls) :
            /\ tries[k] >= 1
            /\ k = i =>
                 \/ tries[k] = max_tries
                 \/ /\ Len(trace) = tries[k]
                    /\ trace[Len(trace)].result.success \/ trace[Len(trace)].result.skip

\* every URL of the list resolves to a file that was there when the run began
AllExisted == \A k \in 1..Len(urls) : Resolves(k) /\ DestinationOf(k) \in DOMAIN fs0

\* C4: when every URL resolves to an existing file, a run makes no request,
\* one attempt per URL, sleeps 0 seconds and ends with number_of_existing_files
\* the number of URLs and the two other counters 0.
C4_Idempotent ==
    AllExisted =>
        /\ requests_made = 0
        /\ pc # "crashed"
        /\ \A k \in 1..Len(urls) : tries[k] <= 1
        /\ \A j \in 1..Len(trace) : trace[j].sleep_time.num = 0 /\ trace[j].slept = 0
        /\ number_of_successful_downloads = 0
        /\ number_of_failed_downloads = 0
        /\ number_of_existing_files = Cardinality({k \in 1..Len(urls) : tries[k] = 1})
        /\ pc = "done" =>
              /\ number_of_existing_files = Len(urls)
              /\ \A k \in 1..Len(urls) : tries[k] = 1

C4_Witness == AllExisted /\ pc = "done" /\ Len(urls) >= 2

FirstTry200(j) ==
    /\ Len(trace) >= j
    /\ trace[j].env.transport = "response"
    /\ trace[j].env.status_code = 200
    /\ trace[j].env.write = "complete"
    /\ trace[j].result.rate_limits = blank_rate_limits

\* C6: after a first attempt that got 200 without rate-limit headers and wrote
\* the body, the body is at the destination, the counter of successes is 1 (for
\* the first URL of a run), no second attempt is made and the wait time
\* computed for the outcome, and slept, is 0.
C6_FirstTrySuccessWaitsZero ==
    FirstTry200(1) =>
        /\ fs[DestinationOf(i)] = trace[1].env.body
        /\ i = 1 => number_of_successful_downloads = 1
        /\ tries[i] = 1 /\ pc # "attempt"
        /\ trace[1].sleep_time = Wait(0, 1)
        /\ trace[1].slept = 0

\* What holds of the same attempt: everything but the wait, which is 2^1 = 2
\* seconds handed to sleep(), which pauses 20 hundredths of a second.
FirstTrySuccessAsBuilt ==
    FirstTry200(1) =>
        /\ fs[DestinationOf(i)] = trace[1].env.body
        /\ i = 1 => number_of_successful_downloads = 1
        /\ number_of_successful_downloads >= 1
        /\ tries[i] = 1 /\ pc # "attempt"
        /\ trace[1].result.success /\ trace[1].result.attempt_number = 1
        /\ trace[1].sleep_time = Wait(2, 1)
        /\ trace[1].slept = 20

\* attempt j of the current URL got the status code without rate-limit headers
Got(j, status_code) ==
    /\ trace[j].env.transport = "response"
    /\ trace[j].env.status_code = status_code
    /\ trace[j].result.rate_limits = blank_rate_limits

\* C7: 503, 503, then 200 (no rate-limit headers): download_all sleeps 2
\* seconds after attempt 1 and 4 seconds after attempt 2, makes exactly 3
\* attempts and ends with success = true and attempt_number = 3.  The time
\* slept is in hundredths of a second.
C7_RetryThenSuccess ==
    (Len(trace) = 3 /\ Got(1, 503) /\ Got(2, 503) /\ Got(3, 200)
       /\ trace[3].env.write = "complete") =>
        /\ trace[1].slept = 200
        /\ trace[2].slept = 400
        /\ tries[i] = 3
        /\ trace[3].result.success
        /\ trace[3].result.attempt_number = 3

\* What holds of the same run: the wait times handed to sleep() are 2 and 4
\* seconds, sleep() pauses 20 and 40 hundredths of a second, 3 attempts are
\* made and the last outcome is a success with attempt_number 3.
RetryThenSuccessAsBuilt ==
    (Len(trace) = 3 /\ Got(1, 503) /\ Got(2, 503) /\ Got(3, 200)
       /\ trace[3].env.write = "complete") =>
        /\ trace[1].sleep_time = Wait(2, 1) /\ trace[1].slept = 20
        /\ trace[2].sleep_time = Wait(4, 1) /\ trace[2].slept = 40
        /\ tries[i] = 3
        /\ trace[3].result.success
        /\ trace[3].result.attempt_number = 3

\* C8: with skip false and retry_after KNOWN and above 0, wait_time_policy
\* returns the smaller of the retry_after value and 3600, whatever the other
\* fields are.
C8_RetryAfterFirst ==
    (/\ policy_out # None
     /\ ~policy_in.skip
     /\ policy_in.rate_limits.retry_after.state = KNOWN
     /\ policy_in.rate_limits.retry_after.n > 0) =>
        /\ ~policy_out[1].raised
        /\ policy_out[1].value.den = 1
        /\ policy_out[1].value.num =
              IF policy_in.rate_limits.retry_after.n > 3600 THEN 3600
              ELSE policy_in.rate_limits.retry_after.n

\* a Retry-After of 7200 on a 503 whose quota rule applies too: 3600
C8_Witness ==
    /\ policy_out # None
    /\ ~policy_in.skip
    /\ policy_in.status_code = 503
    /\ policy_in.rate_limits.retry_after = RateLimitPair(7200, KNOWN)
    /\ policy_in.rate_limits.remaining = RateLimitPair(2, KNOWN)
    /\ policy_in.rate_limits.reset_after = RateLimitPair(9, KNOWN)
    /\ policy_out[1] = Returned(Wait(3600, 1))

\* the Retry-After rule, and the quota rule, apply to a result
RetryAfterApplies(r) ==
    r.rate_limits.retry_after.state = KNOWN /\ r.rate_limits.retry_after.n > 0

QuotaApplies(r) ==
    /\ r.rate_limits.remaining.state = KNOWN /\ r.rate_limits.remaining.n > 0
    /\ r.rate_limits.reset_after.state = KNOWN /\ r.rate_limits.reset_after.n > 0

\* C9: with skip false, status 429, 503 or CONNECTION_ERROR, attempt number
\* n >= 1 and neither the Retry-After rule nor the quota rule applicable,
\* wait_time_policy returns 2^n.
C9_ExponentialBackoff ==
    (/\ policy_out # None
     /\ ~policy_in.skip
     /\ policy_in.status_code \in {429, 503, -1}
     /\ policy_in.attempt_number >= 1
     /\ ~RetryAfterApplies(policy_in)
     /\ ~QuotaApplies(policy_in)) =>
        /\ ~policy_out[1].raised
        /\ policy_out[1].value.den = 1
        /\ policy_out[1].value.num = 2 ^ policy_in.attempt_number

\* status 429 on attempt 3 without signals: 8
C9_Witness ==
    /\ policy_out # None
    /\ ~policy_in.skip
    /\ policy_in.status_code = 429
    /\ policy_in.attempt_number = 3
    /\ policy_in.rate_limits.retry_after = RateLimitPair(5, UNKNOWN)
    /\ policy_in.rate_limits.remaining = RateLimitPair(0, KNOWN)
    /\ policy_out[1] = Returned(Wait(8, 1))

\* a header of the map is matched by the regex and its value is an integer
PresentAndParses(headers, regex) ==
    \E k \in 1..Len(headers) :
        fullmatch(regex, headers[k][1]) /\ IntParses(headers[k][2])

\* C10: the parsers never raise; a signal is KNOWN iff its header is present
\* with an integer value, and (0, UNKNOWN) otherwise.
C10_ParsersTotal ==
    headers_out # None =>
        /\ ~headers_out[1].raised
        /\ headers_out[1].value.retry_after.state = KNOWN
              <=> PresentAndParses(headers_in, RetryAfterRegex)
        /\ headers_out[1].value.retry_after.state = UNKNOWN
              => headers_out[1].value.retry_after.n = 0

\* a header name that is X-Rate-Limit-Remaining up to letter case, the leading
\* X- and the hyphens between its words
NamesRemaining(name) ==
    RemoveAll(Lower(name), T_hyphen) \in
        { pre \o T_rate \o T_limit \o T_remaining : pre \in {<<"x">>, <<>>} }

\* C11: a header map whose only key names the remaining quota, in any letter
\* case, with or without the leading X- and with or without each hyphen, and
\* whose value is "5", yields remaining = (5, KNOWN).
C11_RemainingNameInsensitive ==
    (/\ headers_out # None
     /\ Len(headers_in) = 1
     /\ NamesRemaining(headers_in[1][1])
     /\ headers_in[1][2] = <<"5">>) =>
        /\ ~headers_out[1].raised
        /\ headers_out[1].value.remaining = RateLimitPair(5, KNOWN)

\* What holds of the same maps: the names with a hyphen before Remaining give
\* (5, KNOWN); a name without that hyphen is not matched and gives (0, UNKNOWN).
RemainingNameAsBuilt ==
    (/\ headers_out # None
     /\ Len(headers_in) = 1
     /\ NamesRemaining(headers_in[1][1])
     /\ headers_in[1][2] = <<"5">>) =>
        /\ ~headers_out[1].raised
        /\ headers_out[1].value.remaining =
              IF headers_in[1][1] = H_ratelimitremaining
              THEN RateLimitPair(0, UNKNOWN)
              ELSE RateLimitPair(5, KNOWN)

\* C12: for every DownloadResult with non-negative signal values and attempt
\* number, a reset value above 1,000,000,000 included, wait_time_policy
\* returns a number that is at least 0; it never raises.
C12_PolicyTotalNonNegative ==
    policy_out # None =>
        /\ ~policy_out[1].raised
        /\ policy_out[1].value.num >= 0
        /\ policy_out[1].value.den > 0

\* What holds instead: wait_time_policy raises exactly when the quota rule is
\* reached with a reset value above 1,000,000,000, and returns a number that
\* is at least 0 for every other input.
PolicyRaisesOnEpochOnly ==
    policy_out # None =>
        /\ policy_out[1].raised <=>
              /\ ~policy_in.skip
              /\ ~RetryAfterApplies(policy_in)
              /\ QuotaApplies(policy_in)
              /\ policy_in.rate_limits.reset_after.n > 1000000000
        /\ ~policy_out[1].raised =>
              policy_out[1].value.num >= 0 /\ policy_out[1].value.den > 0

\* C13: with skip false, no applicable Retry-After, remaining KNOWN with value
\* r > 0 and reset KNOWN with value t > 0, wait_time_policy returns
\* duration / r whatever the status code is, where duration is t for t up to
\* 1,000,000,000 and t less the current time (so at most t) above it.
C13_QuotaSpreading ==
    (/\ policy_out # None
     /\ ~policy_in.skip
     /\ ~RetryAfterApplies(policy_in)
     /\ QuotaApplies(policy_in)) =>
        /\ ~policy_out[1].raised
        /\ policy_out[1].value.den = policy_in.rate_limits.remaining.n
        /\ IF policy_in.rate_limits.reset_after.n > 1000000000
           THEN policy_out[1].value.num <= policy_in.rate_limits.reset_after.n
           ELSE policy_out[1].value.num = policy_in.rate_limits.reset_after.n

\* What holds of the quota rule: a reset value up to 1,000,000,000 is spread
\* over the remaining calls, before the status-code backoff is looked at.
QuotaSpreadingRelative ==
    (/\ policy_out # None
     /\ ~policy_in.skip
     /\ ~RetryAfterApplies(policy_in)
     /\ QuotaApplies(policy_in)
     /\ policy_in.rate_limits.reset_after.n <= 1000000000) =>
        policy_out[1] = Returned(Wait(policy_in.rate_limits.reset_after.n,
                                      policy_in.rate_limits.remaining.n))

\* the entry of the trace is an attempt that got a 2xx response and whose
\* write of the body failed
WriteFailed(e) ==
    /\ e.env.transport = "response"
    /\ e.env.status_code >= 200 /\ e.env.status_code < 300
    /\ e.env.write # "complete"

\* the step is an attempt of download_all that returned an outcome
AttemptReturned == Len(trace') = Len(trace) + 1

CallsDownloadFile == tries' # tries

\* by how much a step changes the three counters
Added ==
    [successful |-> number_of_successful_downloads' - number_of_successful_downloads,
     failed |-> number_of_failed_downloads' - number_of_failed_downloads,
     existing |-> number_of_existing_files' - number_of_existing_files]

Adds(successful, failed, existing) ==
    Added = [successful |-> successful, failed |-> failed, existing |-> existing]

\* C15: the three counters start at 0 and never decrease; a call of
\* download_file adds 1 to at most one of them: to number_of_existing_files on
\* the existing-file outcome, to number_of_failed_downloads on a connection
\* error, a non-2xx response or a failed write, to
\* number_of_successful_downloads on a 2xx response written completely; a
\* destination that is no legal file name changes no counter and is attempted
\* once.
C15_RunStats ==
    /\ number_of_successful_downloads = 0
    /\ number_of_failed_downloads = 0
    /\ number_of_existing_files = 0
    /\ [][/\ Adds(0, 0, 0) \/ (CallsDownloadFile /\ (Adds(1, 0, 0) \/ Adds(0, 1, 0) \/ Adds(0, 0, 1)))
          /\ AttemptReturned =>
               LET e == trace'[Len(trace')] IN
               /\ (e.result.success /\ e.result.skip) => Adds(0, 0, 1)
               /\ e.env.transport = "connection_error" => Adds(0, 1, 0)
               /\ (e.env.transport = "response"
                     /\ ~(e.env.status_code >= 200 /\ e.env.status_code < 300))
                    => Adds(0, 1, 0)
               /\ WriteFailed(e) => Adds(0, 1, 0)
               /\ (e.env.transport = "response"
                     /\ e.env.status_code >= 200 /\ e.env.status_code < 300
                     /\ e.env.write = "complete")
                    => Adds(1, 0, 0)
          /\ (CallsDownloadFile /\ is_valid_url(urls[i]) # None
                /\ ~is_valid_filename(DestinationOf(i))) =>
               /\ Adds(0, 0, 0)
               /\ result' = Some(DownloadResult(urls[i], FALSE, 0, blank_rate_limits,
                                                TRUE, 1))
               /\ tries'[i] = 1
               /\ pc' = "after_tries"
         ]_vars

\* a run with a failed and a successful download whose second URL has a
\* destination that is no legal file name, attempted with tries to spare
C15_Witness ==
    /\ pc = "done"
    /\ i = 2
    /\ max_tries = 3
    /\ ~is_valid_filename(DestinationOf(2))
    /\ tries[2] = 1
    /\ number_of_failed_downloads >= 1
    /\ number_of_successful_downloads = 1

\* the inner loop of the current URL has ended and its last outcome neither
\* succeeded nor skipped: all max_tries attempts failed
Exhausted ==
    /\ pc = "after_tries"
    /\ ~result[1].success /\ ~result[1].skip

\* C16: when all max_tries attempts of a URL ended with success = false and
\* skip = false, the 'Failed to download ... after max_tries attempts' record
\* is emitted for it before the next URL starts; it is emitted for no URL whose
\* last outcome has success = true or skip = true.
C16_AbandonReport ==
    [][pc = "after_tries" =>
          /\ Exhausted => (i \in abandoned' /\ tries[i] = max_tries)
          /\ ~Exhausted => i \notin abandoned'
          /\ \A k \in 1..Len(urls) : k # i => (k \in abandoned' <=> k \in abandoned)
      ]_vars

\* What holds instead: the record is never emitted.
NoAbandonReport == abandoned = {}

\* a URL's max_tries = 3 attempts have all failed and download_all has ended
ExhaustedAndDone ==
    /\ pc = "done"
    /\ max_tries = 3
    /\ Len(trace) = 3
    /\ \A j \in 1..3 : ~trace[j].result.success /\ ~trace[j].result.skip

\* every attempt of the current URL made so far ended with a ConnectionError
\* or Timeout of requests.get, and nothing else has ended the run
AllConnectionErrors ==
    /\ trace # <<>>
    /\ pc # "crashed"
    /\ \A j \in 1..Len(trace) : trace[j].env.transport = "connection_error"

\* C17: every failure of the GET before a response, a request exception other
\* than ConnectionError and Timeout included, gives the outcome success =
\* false, skip = false, status CONNECTION_ERROR, blank rate limits, and adds 1
\* to number_of_failed_downloads; a URL whose fetches all fail this way gets
\* exactly max_tries attempts, with sleeps of 2^1, ..., 2^max_tries seconds,
\* and then the next URL is taken.  The time slept is in hundredths of a second.
C17_TransportFailureRetry ==
    /\ exception # Some("RequestException")
    /\ \A j \in 1..Len(trace) :
         trace[j].env.transport = "connection_error" =>
            trace[j].result = DownloadResult(urls[i], FALSE, -1, blank_rate_limits,
                                             FALSE, j)
    /\ AllConnectionErrors =>
         /\ \A j \in 1..Len(trace) :
              trace[j].sleep_time = Wait(2 ^ j, 1) /\ trace[j].slept = 100 * (2 ^ j)
         /\ i = 1 => number_of_failed_downloads = Len(trace)
         /\ pc = "attempt" => Len(trace) < max_tries
         /\ pc = "after_tries" => Len(trace) = max_tries

\* What holds of the same runs: a ConnectionError or Timeout gives that outcome
\* and is retried up to max_tries attempts; the waits handed to sleep() are
\* 2^1, ..., 2^max_tries seconds, of which sleep() pauses a tenth.  Any other
\* exception of requests.get leaves download_all.
TransportFailureAsBuilt ==
    /\ \A j \in 1..Len(trace) :
         trace[j].env.transport = "connection_error" =>
            trace[j].result = DownloadResult(urls[i], FALSE, -1, blank_rate_limits,
                                             FALSE, j)
    /\ AllConnectionErrors =>
         /\ \A j \in 1..Len(trace) :
              trace[j].sleep_time = Wait(2 ^ j, 1) /\ trace[j].slept = 10 * (2 ^ j)
         /\ i = 1 => number_of_failed_downloads = Len(trace)
         /\ pc = "attempt" => Len(trace) < max_tries
         /\ pc = "after_tries" => Len(trace) = max_tries
    /\ exception = Some("RequestException") => pc = "crashed"

\* a request exception other than ConnectionError and Timeout was raised
OtherRequestException == exception = Some("RequestException")

\* every URL of the list has a scheme and a network location
AllValid == \A k \in 1..Len(urls) : is_valid_url(urls[k]) # None

\* the entry of the trace is an attempt that got a 2xx response and wrote the
\* body completely
Downloaded(e) ==
    /\ e.env.transport = "response"
    /\ e.env.status_code >= 200 /\ e.env.status_code < 300
    /\ e.env.write = "complete"

\* C18: in every state of a run over valid URLs, number_of_successful_downloads
\* + number_of_existing_files is at most the number of URLs taken so far,
\* number_of_failed_downloads is at most that number times max_tries, and a
\* URL downloaded on attempt k has added k - 1 to number_of_failed_downloads
\* (for the first URL the counter is k - 1; for a later one it is at most
\* max_tries for each URL before it, plus k - 1).
C18_CounterBounds ==
    AllValid =>
        /\ number_of_successful_downloads + number_of_existing_files <= i
        /\ number_of_failed_downloads <= i * max_tries
        /\ (trace # <<>> /\ Downloaded(trace[Len(trace)])) =>
              /\ \A j \in 1..(Len(trace) - 1) :
                    ~trace[j].result.success /\ ~trace[j].result.skip
                      /\ trace[j].env.transport # "no request"
              /\ i = 1 => number_of_failed_downloads = Len(trace) - 1
              /\ number_of_failed_downloads <= (i - 1) * max_tries + Len(trace) - 1

\* the first URL failed three times, the second twice before it was downloaded
C18_Witness ==
    /\ AllValid
    /\ pc = "done"
    /\ i = 2
    /\ max_tries = 3
    /\ Len(trace) = 3
    /\ Downloaded(trace[3])
    /\ number_of_failed_downloads = 5
    /\ number_of_successful_downloads = 1
    /\ number_of_existing_files = 0

\* the file at the path is what a write that failed midway left
HoldsPartial(path) == path \in DOMAIN fs /\ fs[path] = PARTIAL

\* C19: a write that fails after the destination was created leaves the
\* incomplete file there; the file stays; every later attempt for a URL with
\* that destination makes no request, returns the existing-file outcome
\* (success, skip, status 200), adds 1 to number_of_existing_files and is the
\* URL's only attempt.  The same holds of a file that was there when the run
\* began, which is how a later run meets what an earlier run left.
C19_PartialFilesSticky ==
    /\ [](\A j \in 1..Len(trace) :
            (WriteFailed(trace[j]) /\ trace[j].env.write = "fails_midway")
                => HoldsPartial(DestinationOf(i)))
    /\ [][/\ \A path \in DOMAIN fs :
                fs[path] = PARTIAL => (path \in DOMAIN fs' /\ fs'[path] = PARTIAL)
          /\ (CallsDownloadFile /\ Resolves(i) /\ DestinationOf(i) \in DOMAIN fs) =>
                /\ requests_made' = requests_made
                /\ Adds(0, 0, 1)
                /\ result' = Some(DownloadResult(urls[i], TRUE, 200, blank_rate_limits,
                                                 TRUE, 1))
                /\ tries'[i] = 1
                /\ pc' = "after_tries"
         ]_vars

\* the same URL twice: the write of the first download failed midway, the
\* second found the partial file; nothing was ever downloaded completely
C19_Witness ==
    /\ pc = "done"
    /\ Len(urls) = 2
    /\ urls[1] = urls[2]
    /\ max_tries = 3
    /\ HoldsPartial(DestinationOf(1))
    /\ requests_made = 1
    /\ number_of_successful_downloads = 0
    /\ number_of_failed_downloads = 1
    /\ number_of_existing_files = 1

\* the step is a try of download_file by the decorator, and the file of the
\* current line
IsTry == bulk_tries' = bulk_tries + 1

CurrentFile == file_path_of(Strip(bulk_urls[bulk_n].text))

\* C20: in bulk-download.py a URL is fetched at most 15 times; a try that
\* fails (a non-200 response among them) is tried again after a wait of
\* backoff.expo, 1, 2, 4, ...; time.sleep(sleep) is called exactly on the tries
\* that got 200 and wrote the file; a try that finds the file makes no request
\* and no sleep; the failure of the 15th try leaves main, after which no line
\* is taken.
C20_BulkDownload ==
    /\ [](/\ bulk_requests <= 15 /\ bulk_tries <= 15
          /\ bulk_pc = "raised" => bulk_tries = 15)
    /\ [][/\ (IsTry /\ bulk_pc' # "loop") =>
                /\ bulk_sleeps' = bulk_sleeps
                /\ IF bulk_tries' = 15
                   THEN bulk_pc' = "raised"
                   ELSE bulk_pc' = "call" /\ bulk_wait' = 2 ^ (bulk_tries' - 1)
          /\ (IsTry /\ CurrentFile \in DOMAIN bulk_fs) =>
                /\ bulk_requests' = bulk_requests
                /\ bulk_sleeps' = bulk_sleeps
                /\ bulk_fs' = bulk_fs
          /\ bulk_sleeps' # bulk_sleeps =>
                /\ IsTry
                /\ bulk_sleeps' = bulk_sleeps + 1
                /\ bulk_requests' = bulk_requests + 1
                /\ CurrentFile \notin DOMAIN bulk_fs
                /\ CurrentFile \in DOMAIN bulk_fs' /\ bulk_fs'[CurrentFile] = "hello"
                /\ bulk_pc' = "loop"
          /\ (IsTry /\ CurrentFile \notin DOMAIN bulk_fs /\ bulk_pc' = "loop") =>
                bulk_sleeps' = bulk_sleeps + 1
          /\ bulk_pc = "raised" => UNCHANGED vars
         ]_vars

\* the first of two URLs was requested 15 times in vain: main has ended on the
\* exception of the 15th try, the last wait was 2^13, the second URL was not taken
C20_Witness ==
    /\ bulk_pc = "raised"
    /\ Len(bulk_urls) = 2
    /\ bulk_n = 1
    /\ ~is_skipped(bulk_urls[2])
    /\ bulk_requests = 15
    /\ bulk_wait = 8192
    /\ bulk_fs = <<>>

\* a URL was downloaded on its 15th try after 14 requests in vain
DownloadedOnLastTry ==
    /\ bulk_pc = "loop"
    /\ bulk_tries = 15
    /\ bulk_requests = 15
    /\ bulk_sleeps = 1

====
